---- MODULE Spec2Model ----
(***************************************************************************)
(* Model of src/bot.py: the sweet-shop bot's catalogue, per-user cart,     *)
(* screen renderers and the update handlers.                               *)
(*                                                                         *)
(* Strings.  TLC has no string operations, so a Python str is modelled as  *)
(* a sequence of tokens (Seq(STRING)): concatenation and f-strings are \o, *)
(* "" is << >>, and the separator ":" is always a token of its own, so     *)
(* that startswith("cat:") and split(":", 1) are computed on the tokens as *)
(* the code computes them on the characters.  Non-ASCII literals of the    *)
(* source are written transliterated (the parser accepts ASCII only).      *)
(*                                                                         *)
(* Optional values (Sweet | None) are sequences of length 0 or 1.          *)
(***************************************************************************)
EXTENDS Integers, Sequences, FiniteSets, TLC

(***************************************************************************)
(* Bounds of the model (not program constants).                            *)
(***************************************************************************)
\* an add:<id> update is delivered only while the quantity of <id> is below this
MaxQty == 2

\* The user identities the transport can deliver updates for.
Sessions == {"u1", "u2"}

(***************************************************************************)
(* Catalogue (src/bot.py:30-87).                                           *)
(***************************************************************************)
\* variant of lines 43-86: every sweet entered under one id
SweetSameId(id, name, price_rub, description) ==
    [id |-> <<"sweet">>, name |-> name, price_rub |-> price_rub, description |-> description]

Sweet(id, name, price_rub, description) ==
    [id |-> id, name |-> name, price_rub |-> price_rub, description |-> description]

\* dict in insertion order: a sequence of (key, value) items
SWEET_CATALOGUE ==
    << [key |-> <<"chocolate">>,
        sweets |-> << Sweet(<<"milk_chocolate">>, <<"Molochnyj shokolad">>, 220,
                            <<"Klassicheskaya plitka molochnogo shokolada">>),
                      Sweet(<<"dark_truffle">>, <<"Tryufel 72%">>, 280,
                            <<"Temnyj shokolad s nasyshchennym vkusom kakao">>) >>],
       [key |-> <<"caramel">>,
        sweets |-> << Sweet(<<"salted_caramel">>, <<"Solenaya karamel">>, 150,
                            <<"Nezhnaya tyanuchka na slivkah">>),
                      Sweet(<<"hazelnut_caramel">>, <<"Karamel s fundukom">>, 190,
                            <<"Myagkaya karamel s fundukom">>) >>],
       [key |-> <<"cookies">>,
        sweets |-> << Sweet(<<"choco_chip_cookie">>, <<"Pechene s shokoladnoj kroshkoj">>, 120,
                            <<"Domashnee pechene iz slivochnogo testa">>),
                      Sweet(<<"red_velvet_cookie">>, <<"Pechene Krasnyj barhat">>, 130,
                            <<"Myagkoe pechene s kremovym poslevkusiem">>) >>] >>

\* SWEET_CATALOGUE.get(category): the list of sweets; None and [] are both
\* falsy at every use (`if not sweets`) and are both << >> here.
CatalogueGet(category) ==
    LET hits == SelectSeq(SWEET_CATALOGUE, LAMBDA e : e.key = category)
    IN  IF hits = << >> THEN << >> ELSE Head(hits).sweets

\* SWEET_CATALOGUE.values() flattened in iteration order
RECURSIVE FlattenSweets(_)
FlattenSweets(cat) ==
    IF cat = << >> THEN << >> ELSE Head(cat).sweets \o FlattenSweets(Tail(cat))

\* variant of lines 171-176: the first sweet of the catalogue instead of None
find_sweet_or_first(sweet_id) ==
    LET hits == SelectSeq(FlattenSweets(SWEET_CATALOGUE), LAMBDA sw : sw.id = sweet_id)
    IN  IF hits = << >> THEN <<Head(FlattenSweets(SWEET_CATALOGUE))>> ELSE <<Head(hits)>>

\* first match of the scan over all categories, << >> for None
find_sweet_by_id(sweet_id) ==
    LET hits == SelectSeq(FlattenSweets(SWEET_CATALOGUE), LAMBDA sw : sw.id = sweet_id)
    IN  IF hits = << >> THEN << >> ELSE <<Head(hits)>>

(***************************************************************************)
(* String helpers.                                                         *)
(***************************************************************************)
\* data.startswith(prefix)
StartsWith(data, prefix) ==
    /\ Len(data) >= Len(prefix)
    /\ SubSeq(data, 1, Len(prefix)) = prefix

\* data.split(":", 1)[1], for data that contains a ":"
RECURSIVE SplitTail(_)
SplitTail(data) ==
    IF data = << >> THEN << >>
    ELSE IF Head(data) = ":" THEN Tail(data)
    ELSE SplitTail(Tail(data))

\* f"{amount_rub} <ruble sign>"
format_currency(amount_rub) == <<ToString(amount_rub), " RUB">>

(***************************************************************************)
(* The cart: a dict item id -> quantity in insertion order, modelled as a  *)
(* sequence of entries with distinct ids.                                  *)
(***************************************************************************)
EmptyCart == << >>

\* cart.get(sweet_id, 0)
CartGet(cart, sweet_id) ==
    LET hits == SelectSeq(cart, LAMBDA e : e.id = sweet_id)
    IN  IF hits = << >> THEN 0 ELSE Head(hits).qty

\* cart[sweet_id] = qty
CartSet(cart, sweet_id, qty) ==
    IF \E i \in 1..Len(cart) : cart[i].id = sweet_id
    THEN [i \in 1..Len(cart) |->
            IF cart[i].id = sweet_id THEN [id |-> sweet_id, qty |-> qty] ELSE cart[i]]
    ELSE Append(cart, [id |-> sweet_id, qty |-> qty])

\* variants of line 312: the increment forgotten; the quantity restarted
StaleQty(cart, sweet_id) == CartGet(cart, sweet_id)
RestartedQty(cart, sweet_id) == 1

\* the value stored by line 312
IncrementedQty(cart, sweet_id) == CartGet(cart, sweet_id) + 1

\* variant of lines 329, 349: the clear left out
KeptCart(cart) == cart

\* cart.clear() (lines 329, 349): the dict afterwards
ClearedCart(cart) == EmptyCart

\* variant of line 337: the emptiness test left out
CheckoutNeverRefused(cart) == FALSE

\* `not cart` of line 337
CheckoutRefused(cart) == cart = << >>

\* variant of line 275: the router leaves the unknown key to the renderer
CategoryNeverMissing(sweets) == FALSE

\* `not sweets` of line 275
CategoryMissing(sweets) == sweets = << >>

(***************************************************************************)
(* Keyboards (src/bot.py:106-168).  A keyboard is a sequence of rows of    *)
(* buttons.                                                                *)
(***************************************************************************)
InlineKeyboardButton(text, callback_data) == [text |-> text, callback_data |-> callback_data]

category_title(category) ==
    IF category = <<"chocolate">> THEN <<"Shokolad">>
    ELSE IF category = <<"caramel">> THEN <<"Karamel">>
    ELSE IF category = <<"cookies">> THEN <<"Pechene">>
    ELSE category

build_categories_keyboard ==
    [i \in 1..Len(SWEET_CATALOGUE) |->
        <<InlineKeyboardButton(category_title(SWEET_CATALOGUE[i].key),
                               <<"cat", ":">> \o SWEET_CATALOGUE[i].key)>>]
    \o << <<InlineKeyboardButton(<<"Korzina">>, <<"cart", ":", "view">>)>> >>

BackButton == InlineKeyboardButton(<<"Nazad">>, <<"menu">>)

build_sweets_keyboard(category) ==
    LET sweets == CatalogueGet(category)
    IN  IF sweets = << >>
        THEN << <<BackButton>> >>
        ELSE [i \in 1..Len(sweets) |->
                <<InlineKeyboardButton(sweets[i].name \o <<" - ">>
                                           \o format_currency(sweets[i].price_rub),
                                       <<"item", ":">> \o sweets[i].id)>>]
             \o << <<BackButton>> >>

build_item_keyboard(sweet) ==
    << <<InlineKeyboardButton(<<"Dobavit v korzinu">>, <<"add", ":">> \o sweet.id)>>,
       <<InlineKeyboardButton(<<"Otkryt korzinu">>, <<"cart", ":", "view">>), BackButton>> >>

\* variant of lines 151-157: the clear/checkout row never added
build_cart_keyboard_bare(cart) ==
    << <<InlineKeyboardButton(<<"K tovaram">>, <<"menu">>)>> >>

\* variant of line 151: the clear/checkout row whatever the cart holds
build_cart_keyboard_unconditional(cart) ==
    << <<InlineKeyboardButton(<<"Ochistit">>, <<"cart", ":", "clear">>),
         InlineKeyboardButton(<<"Oformit zakaz">>, <<"cart", ":", "checkout">>)>>,
       <<InlineKeyboardButton(<<"K tovaram">>, <<"menu">>)>> >>

build_cart_keyboard(cart) ==
    (IF cart # << >>
     THEN << <<InlineKeyboardButton(<<"Ochistit">>, <<"cart", ":", "clear">>),
               InlineKeyboardButton(<<"Oformit zakaz">>, <<"cart", ":", "checkout">>)>> >>
     ELSE << >>)
    \o << <<InlineKeyboardButton(<<"K tovaram">>, <<"menu">>)>> >>

(***************************************************************************)
(* Message texts.                                                          *)
(***************************************************************************)
MenuText == <<"Vybirajte sladosti:">>
StartText(first_name) ==
    <<"Privet, ">> \o first_name \o <<"! Dobro pozhalovat v Sweet Shop">>
HelpText == <<"Ya bot-magazin sladostej. Vot chto ya umeyu: /menu /cart /help">>
UnknownCommandText == <<"Ya poka ne znayu takoj komandy. Ispolzujte /menu">>
CategoryText(category) == <<"Kategoriya: ">> \o category_title(category)
ItemText(sweet) ==
    <<"<b>">> \o sweet.name \o <<"</b>\n", "Cena: ">> \o format_currency(sweet.price_rub)
        \o <<"\n\n">> \o sweet.description
CartEmptyText == <<"Vasha korzina poka pusta.">>
CartClearedText == <<"Korzina ochishchena. Chem eshche mozhem poradovat?">>
ThanksText == <<"Spasibo za zakaz!">>

\* "\n".join(lines)
RECURSIVE Join(_)
Join(lines) ==
    IF lines = << >> THEN << >>
    ELSE IF Len(lines) = 1 THEN Head(lines)
    ELSE Head(lines) \o <<"\n">> \o Join(Tail(lines))

\* variant of lines 237-238: the price added to the total, not the line total
RECURSIVE CartLinesUnitTotal(_, _)
CartLinesUnitTotal(items, acc) ==
    IF items = << >> THEN acc
    ELSE LET sweet == find_sweet_by_id(Head(items).id)
             quantity == Head(items).qty
         IN  IF sweet = << >>
             THEN CartLinesUnitTotal(Tail(items), acc)
             ELSE LET line_total == sweet[1].price_rub * quantity
                  IN  CartLinesUnitTotal(Tail(items),
                        [lines |-> Append(acc.lines,
                                     <<"* ">> \o sweet[1].name \o <<" - ", ToString(quantity), " sht. x ">>
                                       \o format_currency(sweet[1].price_rub) \o <<" = ">>
                                       \o format_currency(line_total)),
                         total |-> acc.total + sweet[1].price_rub])

\* the loop of lines 233-242 over cart.items(): [lines, total]
RECURSIVE CartLines(_, _)
CartLines(items, acc) ==
    IF items = << >> THEN acc
    ELSE LET sweet == find_sweet_by_id(Head(items).id)
             quantity == Head(items).qty
         IN  IF sweet = << >>
             THEN CartLines(Tail(items), acc)
             ELSE LET line_total == sweet[1].price_rub * quantity
                  IN  CartLines(Tail(items),
                        [lines |-> Append(acc.lines,
                                     <<"* ">> \o sweet[1].name \o <<" - ", ToString(quantity), " sht. x ">>
                                       \o format_currency(sweet[1].price_rub) \o <<" = ">>
                                       \o format_currency(line_total)),
                         total |-> acc.total + line_total])

\* variant of lines 228-229: no empty-cart text
format_cart_unguarded(cart) ==
    LET r == CartLines(cart, [lines |-> << <<"Vasha korzina:">> >>, total |-> 0])
    IN  Join(r.lines \o << << >>, <<"Itogo k oplate: ">> \o format_currency(r.total) >>)

format_cart(cart) ==
    IF cart = << >> THEN CartEmptyText
    ELSE LET r == CartLines(cart, [lines |-> << <<"Vasha korzina:">> >>, total |-> 0])
         IN  Join(r.lines
                  \o << << >>,
                        <<"Itogo k oplate: ">> \o format_currency(r.total),
                        <<"Dlya zaversheniya zakaza nazhmite Oformit zakaz">> >>)

(***************************************************************************)
(* State.                                                                  *)
(*   user_data[u]  context.user_data of user u: a mapping that has the     *)
(*                 key "cart" or not (src/bot.py:93)                       *)
(*   screen[u]     the message with an inline keyboard that u interacts    *)
(*                 with: its text and reply_markup.  reply_text with a     *)
(*                 keyboard makes a new one, the edit_* calls of a         *)
(*                 callback query change it                                *)
(*   pending[u]    a button press of u that the application has not taken  *)
(*                 yet, made while it was busy with another update         *)
(*   tasks         the handler coroutines: suspended at an await, or done  *)
(*                 (the record of the update handled last, kept until the  *)
(*                 next update is taken)                                   *)
(*   hist[u]       history of u, read by the properties only: whether an   *)
(*                 item was ever added, and how many add_to_cart of each   *)
(*                 id were handled since the last clear_cart or checkout   *)
(***************************************************************************)
VARIABLES user_data, screen, tasks, pending, hist

vars == <<user_data, screen, tasks, pending, hist>>

NoUserData == [k \in {} |-> << >>]
NoScreen == [text |-> << >>, reply_markup |-> << >>]

CatalogueIds == {FlattenSweets(SWEET_CATALOGUE)[i].id : i \in 1..Len(FlattenSweets(SWEET_CATALOGUE))}
NoAdds == [x \in CatalogueIds |-> 0]

\* The carts live in memory only and start empty with the process (lines 4-5,
\* 93), while a chat may still show a message of an earlier run: none, the
\* category list, or a cart that held an item.
LeftoverScreens ==
    { NoScreen,
      [text |-> MenuText, reply_markup |-> build_categories_keyboard],
      [text |-> format_cart(<<[id |-> <<"milk_chocolate">>, qty |-> 1]>>),
       reply_markup |-> build_cart_keyboard(<<[id |-> <<"milk_chocolate">>, qty |-> 1]>>)] }

Init ==
    /\ user_data = [u \in Sessions |-> NoUserData]
    /\ screen \in [Sessions -> LeftoverScreens]
    /\ tasks = {}
    /\ pending = [u \in Sessions |-> << >>]
    /\ hist = [u \in Sessions |-> [ever_added |-> FALSE, adds |-> NoAdds]]

(***************************************************************************)
(* Cart store (src/bot.py:90-97).                                          *)
(***************************************************************************)
\* user_data.setdefault("cart", {}): the mapping afterwards.  The value under
\* "cart" is only ever written by this function, so it is always a dict and
\* the isinstance branch of lines 94-96 is not taken.
SetDefaultCart(ud) == IF "cart" \in DOMAIN ud THEN ud ELSE [cart |-> EmptyCart]

\* the dict returned by _get_cart (a reference into user_data)
get_cart(ud) == SetDefaultCart(ud).cart

\* variant: one mapping for every user (a module-level cart)
SharedUser(u) == "u1"

\* context.user_data is the mapping of the update's effective user
ContextUser(u) == u

\* what a read of the cart of u returns now
Cart(u) == get_cart(user_data[u])

(***************************************************************************)
(* Dispatch.  main() builds the Application with the builder's defaults    *)
(* (line 380: no concurrent_updates) and registers every handler blocking  *)
(* (lines 382-387), so the application awaits the handler of one update    *)
(* before it takes the next one from the queue.                            *)
(***************************************************************************)
max_concurrent_updates == 1

Running == {t \in tasks : t.pc # "done"}

\* variant of line 380: the application built with concurrent_updates(True)
CanDispatchConcurrently == Cardinality(Running) < max_concurrent_updates + 1

CanDispatch == Cardinality(Running) < max_concurrent_updates

Task(u, kind, data, pc, answers, sent) ==
    [user |-> u, kind |-> kind, data |-> data, pc |-> pc, answers |-> answers, sent |-> sent]

\* the handler of t moves on to pc, having made the answer calls `answers`
Move(t, pc, answers) ==
    tasks' = (tasks \ {t}) \cup {[t EXCEPT !.pc = pc, !.answers = answers]}

\* a command handler runs from its start to its only await and returns
Ran(u, command, sent) ==
    tasks' = Running \cup {Task(u, "command", command, "done", << >>, sent)}

\* reply_text / edit_message_text with a keyboard
Render(u, text, reply_markup) ==
    screen' = [screen EXCEPT ![u] = [text |-> text, reply_markup |-> reply_markup]]

\* edit_message_reply_markup: the text stays
RenderMarkup(u, reply_markup) ==
    screen' = [screen EXCEPT ![u].reply_markup = reply_markup]

(***************************************************************************)
(* Command handlers (src/bot.py:179-224, 355-362).                         *)
(***************************************************************************)
start(u) ==
    /\ CanDispatch
    /\ pending[u] = << >>
    /\ Render(u, StartText(<<u>>), build_categories_keyboard)
    /\ Ran(u, <<"/start">>, StartText(<<u>>))
    /\ UNCHANGED <<user_data, pending, hist>>

\* variant of lines 194-207: the summary sent with the category keyboard
help_command_with_menu(u) ==
    /\ CanDispatch
    /\ pending[u] = << >>
    /\ Render(u, HelpText, build_categories_keyboard)
    /\ Ran(u, <<"/help">>, HelpText)
    /\ UNCHANGED <<user_data, pending, hist>>

help_command(u) ==
    /\ CanDispatch
    /\ pending[u] = << >>
    /\ Ran(u, <<"/help">>, HelpText)
    /\ UNCHANGED <<user_data, screen, pending, hist>>

menu_command(u) ==
    /\ CanDispatch
    /\ pending[u] = << >>
    /\ Render(u, MenuText, build_categories_keyboard)
    /\ Ran(u, <<"/menu">>, MenuText)
    /\ UNCHANGED <<user_data, pending, hist>>

cart_command(u) ==
    LET k == ContextUser(u)
        cart == get_cart(user_data[k])
    IN  /\ CanDispatch
        /\ pending[u] = << >>
        /\ user_data' = [user_data EXCEPT ![k] = SetDefaultCart(user_data[k])]
        /\ Render(u, format_cart(cart), build_cart_keyboard(cart))
        /\ Ran(u, <<"/cart">>, format_cart(cart))
        /\ UNCHANGED <<pending, hist>>

unknown_command(u, command) ==
    /\ CanDispatch
    /\ pending[u] = << >>
    /\ Ran(u, command, UnknownCommandText)
    /\ UNCHANGED <<user_data, screen, pending, hist>>

(***************************************************************************)
(* handle_callbacks (src/bot.py:253-352).  The coroutine is cut at its     *)
(* awaits: Accept runs lines 256-260, Route runs from line 262 to the next *)
(* await of the branch taken, Resume runs what follows the awaits of lines *)
(* 313 and 341.  A call to the transport takes effect when it is made.     *)
(***************************************************************************)
Answer(text, show_alert) == [text |-> text, show_alert |-> show_alert]

\* the callback_data of the buttons of a keyboard
ButtonData(kb) ==
    UNION {{kb[i][j].callback_data : j \in 1..Len(kb[i])} : i \in 1..Len(kb)}

\* callback_data that no keyboard of this program carries (buttons of another
\* version of the bot): an unknown key and id, an unknown cart action, no data,
\* and data that only starts with "menu"
ForeignCallbacks ==
    { <<"cat", ":", "nuts">>, <<"item", ":", "nonexistent">>, <<"add", ":", "nonexistent">>,
      <<"cart", ":", "other">>, << >>, <<"menu", "x">> }

\* what u can press: a button of the message on display, or a foreign button
Offered(u) == ButtonData(screen[u].reply_markup) \cup ForeignCallbacks

\* the bound MaxQty on the quantities, for an add: press taken after `ahead`
\* other updates
WithinBound(u, data, ahead) ==
    (StartsWith(data, <<"add", ":">>) /\ SplitTail(data) \in CatalogueIds)
        => /\ CartGet(Cart(u), SplitTail(data)) + ahead < MaxQty
           /\ hist[u].adds[SplitTail(data)] + ahead < MaxQty

\* u presses a button while the application is busy: the update waits in the
\* queue, behind the update being handled
Tap(u, data) ==
    /\ Running # {}
    /\ pending[u] = << >>
    /\ data \in Offered(u)
    /\ WithinBound(u, data, 1)
    /\ pending' = [pending EXCEPT ![u] = <<data>>]
    /\ UNCHANGED <<user_data, screen, tasks, hist>>

\* lines 256-260: query.answer() with no text.  The update is the press that
\* waits, or a press made now.
Accept(u, data) ==
    /\ CanDispatch
    /\ IF pending[u] = << >> THEN data \in Offered(u) ELSE data = pending[u][1]
    /\ WithinBound(u, data, 0)
    /\ tasks' = Running \cup {Task(u, "callback", data, "L260", <<Answer(<< >>, FALSE)>>, << >>)}
    /\ pending' = [pending EXCEPT ![u] = << >>]
    /\ UNCHANGED <<user_data, screen, hist>>

\* the handler of t returns after a last notice
Notice(t, text) ==
    /\ Move(t, "done", Append(t.answers, Answer(text, TRUE)))
    /\ UNCHANGED <<user_data, screen, pending, hist>>

\* variant of lines 265-270: the branch returns without the edit
RouteMenuWithoutEdit(t) ==
    /\ Move(t, "done", t.answers)
    /\ UNCHANGED <<user_data, screen, pending, hist>>

\* lines 265-270
RouteMenu(t) ==
    /\ Render(t.user, MenuText, build_categories_keyboard)
    /\ Move(t, "done", t.answers)
    /\ UNCHANGED <<user_data, pending, hist>>

\* lines 272-283
RouteCat(t) ==
    LET category == SplitTail(t.data)
        sweets == CatalogueGet(category)
    IN  IF CategoryMissing(sweets)
        THEN Notice(t, <<"Kategoriya ne najdena">>)
        ELSE /\ Render(t.user, CategoryText(category), build_sweets_keyboard(category))
             /\ Move(t, "done", t.answers)
             /\ UNCHANGED <<user_data, pending, hist>>

\* lines 285-302
RouteItem(t) ==
    LET sweet_id == SplitTail(t.data)
        sweet == find_sweet_by_id(sweet_id)
    IN  IF sweet = << >>
        THEN Notice(t, <<"Tovar ne najden">>)
        ELSE /\ Render(t.user, ItemText(sweet[1]), build_item_keyboard(sweet[1]))
             /\ Move(t, "done", t.answers)
             /\ UNCHANGED <<user_data, pending, hist>>

\* variant of lines 306-312: the cart written before the id is looked up
RouteAddThenValidate(t) ==
    LET sweet_id == SplitTail(t.data)
        sweet == find_sweet_by_id(sweet_id)
        k == ContextUser(t.user)
        cart == get_cart(user_data[k])
    IN  /\ user_data' = [user_data EXCEPT
                            ![k] = [cart |-> CartSet(cart, sweet_id, IncrementedQty(cart, sweet_id))]]
        /\ hist' = [hist EXCEPT ![t.user].ever_added = TRUE,
                                ![t.user].adds = [x \in CatalogueIds |->
                                                    IF x = sweet_id THEN @[x] + 1 ELSE @[x]]]
        /\ IF sweet = << >>
           THEN Move(t, "done", Append(t.answers, Answer(<<"Tovar ne najden">>, TRUE)))
           ELSE Move(t, "L313", Append(t.answers, Answer(<<"Dobavleno v korzinu">>, FALSE)))
        /\ UNCHANGED <<screen, pending>>

\* lines 304-313
RouteAdd(t) ==
    LET sweet_id == SplitTail(t.data)
        sweet == find_sweet_by_id(sweet_id)
        k == ContextUser(t.user)
        cart == get_cart(user_data[k])
    IN  IF sweet = << >>
        THEN Notice(t, <<"Tovar ne najden">>)
        ELSE /\ user_data' = [user_data EXCEPT
                                ![k] = [cart |-> CartSet(cart, sweet_id, IncrementedQty(cart, sweet_id))]]
             /\ Move(t, "L313", Append(t.answers, Answer(<<"Dobavleno v korzinu">>, FALSE)))
             /\ hist' = [hist EXCEPT ![t.user].ever_added = TRUE,
                                     ![t.user].adds[sweet_id] = @ + 1]
             /\ UNCHANGED <<screen, pending>>

\* lines 317-350
RouteCart(t) ==
    LET action == SplitTail(t.data)
        k == ContextUser(t.user)
        cart == get_cart(user_data[k])
    IN  IF action = <<"view">>
        THEN /\ user_data' = [user_data EXCEPT ![k] = SetDefaultCart(user_data[k])]
             /\ Render(t.user, format_cart(cart), build_cart_keyboard(cart))
             /\ Move(t, "done", t.answers)
             /\ UNCHANGED <<pending, hist>>
        ELSE IF action = <<"clear">>
        THEN /\ user_data' = [user_data EXCEPT ![k] = [cart |-> ClearedCart(cart)]]
             /\ Render(t.user, CartClearedText, build_cart_keyboard(ClearedCart(cart)))
             /\ Move(t, "done", t.answers)
             /\ hist' = [hist EXCEPT ![t.user].adds = NoAdds]
             /\ UNCHANGED pending
        ELSE IF action = <<"checkout">>
        THEN IF CheckoutRefused(cart)
             THEN /\ user_data' = [user_data EXCEPT ![k] = SetDefaultCart(user_data[k])]
                  /\ Move(t, "done", Append(t.answers, Answer(<<"Korzina pusta">>, TRUE)))
                  /\ hist' = [hist EXCEPT ![t.user].adds = NoAdds]
                  /\ UNCHANGED <<screen, pending>>
             ELSE /\ user_data' = [user_data EXCEPT ![k] = SetDefaultCart(user_data[k])]
                  /\ Render(t.user, ThanksText, build_categories_keyboard)
                  /\ Move(t, "L341", t.answers)
                  /\ UNCHANGED <<pending, hist>>
        \* line 352, reached from the cart: branch
        ELSE /\ user_data' = [user_data EXCEPT ![k] = SetDefaultCart(user_data[k])]
             /\ Move(t, "done", Append(t.answers, Answer(<<"Neizvestnaya komanda">>, TRUE)))
             /\ UNCHANGED <<screen, pending, hist>>

\* variant of line 265: the menu branch taken by prefix, as the others are
RouteByPrefix(t) ==
    /\ t \in tasks
    /\ t.pc = "L260"
    /\ IF StartsWith(t.data, <<"menu">>) THEN RouteMenu(t)
       ELSE IF StartsWith(t.data, <<"cat", ":">>) THEN RouteCat(t)
       ELSE IF StartsWith(t.data, <<"item", ":">>) THEN RouteItem(t)
       ELSE IF StartsWith(t.data, <<"add", ":">>) THEN RouteAdd(t)
       ELSE IF StartsWith(t.data, <<"cart", ":">>) THEN RouteCart(t)
       ELSE Notice(t, <<"Neizvestnaya komanda">>)

\* lines 262-352: the cascade of prefix tests
Route(t) ==
    /\ t \in tasks
    /\ t.pc = "L260"
    /\ IF t.data = <<"menu">> THEN RouteMenu(t)
       ELSE IF StartsWith(t.data, <<"cat", ":">>) THEN RouteCat(t)
       ELSE IF StartsWith(t.data, <<"item", ":">>) THEN RouteItem(t)
       ELSE IF StartsWith(t.data, <<"add", ":">>) THEN RouteAdd(t)
       ELSE IF StartsWith(t.data, <<"cart", ":">>) THEN RouteCart(t)
       ELSE Notice(t, <<"Neizvestnaya komanda">>)

\* line 314, after the await of line 313
ResumeAdd(t) ==
    /\ t \in tasks
    /\ t.pc = "L313"
    /\ RenderMarkup(t.user, build_item_keyboard(find_sweet_by_id(SplitTail(t.data))[1]))
    /\ Move(t, "done", t.answers)
    /\ UNCHANGED <<user_data, pending, hist>>

\* lines 349-350, after the await of line 341: cart.clear() on the dict that
\* line 319 fetched, which is the dict user_data holds
ResumeCheckout(t) ==
    /\ t \in tasks
    /\ t.pc = "L341"
    /\ user_data' = [user_data EXCEPT ![ContextUser(t.user)] =
                                        [cart |-> ClearedCart(get_cart(user_data[ContextUser(t.user)]))]]
    /\ Move(t, "done", t.answers)
    /\ hist' = [hist EXCEPT ![t.user].adds = NoAdds]
    /\ UNCHANGED <<screen, pending>>

(***************************************************************************)
(* Inputs and specifications.                                              *)
(***************************************************************************)
\* the presses explored: the foreign ones, and of the program's buttons the
\* menu and cart buttons and the path to two items of two categories
Callbacks ==
    ForeignCallbacks \cup
    { <<"menu">>,
      <<"cat", ":", "chocolate">>, <<"cat", ":", "caramel">>,
      <<"item", ":", "milk_chocolate">>, <<"item", ":", "salted_caramel">>,
      <<"add", ":", "milk_chocolate">>, <<"add", ":", "salted_caramel">>,
      <<"cart", ":", "view">>, <<"cart", ":", "clear">>, <<"cart", ":", "checkout">> }

\* commands that match no CommandHandler
OtherCommands == { <<"/order">> }

\* one user, every input
Solo == {"u1"}

Next ==
    \/ \E u \in Solo : start(u)
    \/ \E u \in Solo : help_command(u)
    \/ \E u \in Solo : menu_command(u)
    \/ \E u \in Solo : cart_command(u)
    \/ \E u \in Solo, c \in OtherCommands : unknown_command(u, c)
    \/ \E u \in Solo, data \in Callbacks : Tap(u, data)
    \/ \E u \in Solo, data \in Callbacks : Accept(u, data)
    \/ \E t \in tasks : Route(t)
    \/ \E t \in tasks : ResumeAdd(t)
    \/ \E t \in tasks : ResumeCheckout(t)

Spec == Init /\ [][Next]_vars

\* every user, the presses that read or write the cart and the path to one
\* item
SessionCallbacks ==
    { <<"menu">>, <<"cat", ":", "chocolate">>, <<"item", ":", "milk_chocolate">>,
      <<"add", ":", "milk_chocolate">>,
      <<"cart", ":", "view">>, <<"cart", ":", "clear">>, <<"cart", ":", "checkout">> }

NextSessions ==
    \/ \E u \in Sessions : cart_command(u)
    \/ \E u \in Sessions, data \in SessionCallbacks : Tap(u, data)
    \/ \E u \in Sessions, data \in SessionCallbacks : Accept(u, data)
    \/ \E t \in tasks : Route(t)
    \/ \E t \in tasks : ResumeAdd(t)
    \/ \E t \in tasks : ResumeCheckout(t)

SpecSessions == Init /\ [][NextSessions]_vars

\* _format_cart as a function of its argument: the cart renderers applied to
\* every dict of a bounded domain, with keys that the catalogue holds and a
\* key that it does not hold.
StoredIds == { <<"milk_chocolate">>, <<"salted_caramel">>, <<"discontinued">> }

RECURSIVE DictsOver(_)
DictsOver(ids) ==
    {<< >>} \cup
    UNION {{<<[id |-> x, qty |-> q]>> \o rest : q \in 1..MaxQty, rest \in DictsOver(ids \ {x})} : x \in ids}

InitFormatCart ==
    /\ user_data \in {[u \in Sessions |-> IF u \in Solo THEN [cart |-> c] ELSE NoUserData] :
                        c \in DictsOver(StoredIds)}
    /\ screen \in [Sessions -> {NoScreen, [text |-> MenuText, reply_markup |-> build_categories_keyboard]}]
    /\ tasks = {}
    /\ pending = [u \in Sessions |-> << >>]
    /\ hist = [u \in Sessions |-> [ever_added |-> FALSE, adds |-> NoAdds]]

NextFormatCart ==
    \/ \E u \in Solo : cart_command(u)
    \/ \E u \in Solo : Accept(u, <<"cart", ":", "view">>)
    \/ \E t \in tasks : Route(t)

SpecFormatCart == InitFormatCart /\ [][NextFormatCart]_vars

(***************************************************************************)
(* Properties.                                                             *)
(***************************************************************************)
CheckoutData == <<"cart", ":", "checkout">>
ViewData == <<"cart", ":", "view">>
ClearData == <<"cart", ":", "clear">>
MilkId == <<"milk_chocolate">>

\* the screens of the navigation targets
CheckoutConfirmation == [text |-> ThanksText, reply_markup |-> build_categories_keyboard]

\* a keyboard whose only button leads back to the categories
OnlyBackButton(kb) ==
    /\ Len(kb) = 1
    /\ Len(kb[1]) = 1
    /\ kb[1][1].callback_data = <<"menu">>

\* the handler of t takes its next step
Steps(t) == t \in Running /\ t \notin tasks'

IsCallback(t, data) == t.kind = "callback" /\ t.data = data

\* the handler of t has returned, its last answer being the alert `text`
ReturnedWithAlert(t, text) ==
    [t EXCEPT !.pc = "done", !.answers = Append(t.answers, Answer(text, TRUE))]

\* C1: a checkout handled while the cart is non-empty renders the checkout
\* confirmation, and when its handler has finished the cart is empty (and the
\* confirmation is still the screen).
C1_CheckoutEmptiesCart ==
    [][\A t \in tasks :
         /\ (IsCallback(t, CheckoutData) /\ t.pc = "L260" /\ Cart(t.user) # << >> /\ Steps(t))
               => /\ screen'[t.user] = CheckoutConfirmation
                  /\ [t EXCEPT !.pc = "L341"] \in tasks'
         /\ (IsCallback(t, CheckoutData) /\ t.pc = "L341" /\ Steps(t))
               => /\ Cart(t.user)' = << >>
                  /\ screen'[t.user] = CheckoutConfirmation
                  /\ [t EXCEPT !.pc = "done"] \in tasks']_vars

C1_Witness ==
    \E t \in tasks :
        /\ IsCallback(t, CheckoutData) /\ t.pc = "done" /\ Len(t.answers) = 1
        /\ hist[t.user].ever_added
        /\ Cart(t.user) = << >>
        /\ screen[t.user] = CheckoutConfirmation

\* C2: a checkout handled while the cart is empty changes no screen and leaves
\* the cart empty and answers with the "cart empty" alert; and a screen becomes
\* the checkout confirmation only by a checkout that found the cart non-empty.
C2_EmptyCheckoutRefused ==
    [][/\ \A t \in tasks :
            (IsCallback(t, CheckoutData) /\ t.pc = "L260" /\ Cart(t.user) = << >> /\ Steps(t))
               => /\ screen' = screen
                  /\ Cart(t.user)' = Cart(t.user)
                  /\ ReturnedWithAlert(t, <<"Korzina pusta">>) \in tasks'
       /\ \A u \in Sessions :
            (screen'[u] = CheckoutConfirmation /\ screen[u] # CheckoutConfirmation)
               => \E t \in tasks :
                     /\ t.user = u /\ IsCallback(t, CheckoutData) /\ t.pc = "L260"
                     /\ Cart(u) # << >> /\ Steps(t)]_vars

C2_Witness ==
    \E t \in tasks :
        /\ t = ReturnedWithAlert([t EXCEPT !.answers = <<Answer(<< >>, FALSE)>>], <<"Korzina pusta">>)
        /\ IsCallback(t, CheckoutData)
        /\ screen[t.user].text = CartClearedText
        /\ Cart(t.user) = << >>

\* C3: the handlers of one session do not overlap: at most one is in progress,
\* and while a handler is suspended at an await nothing else changes the cart
\* or the screen of its session (so the cart that checkout clears is the cart
\* it tested).
C3_NoOverlap ==
    [][/\ \A u \in Sessions : Cardinality({t \in Running' : t.user = u}) <= 1
       /\ \A t \in Running :
            t \in tasks' => /\ Cart(t.user)' = Cart(t.user)
                            /\ screen'[t.user] = screen[t.user]]_vars

C3_Witness ==
    \E t \in tasks :
        /\ IsCallback(t, CheckoutData) /\ t.pc = "L341"
        /\ CartGet(Cart(t.user), MilkId) = MaxQty

\* C4: every stored quantity of every cart is an integer >= 1.
C4_QuantitiesPositive ==
    \A u \in Sessions :
        "cart" \in DOMAIN user_data[u] =>
            \A i \in 1..Len(user_data[u].cart) :
                /\ user_data[u].cart[i].qty \in Int
                /\ user_data[u].cart[i].qty >= 1

C4_Witness ==
    \E u \in Sessions :
        /\ Len(Cart(u)) = 2
        /\ Cart(u)[1].qty = MaxQty
        /\ Cart(u)[2].qty = 1

\* C5: the quantity of every item is the number of add_to_cart of that item
\* handled since the cart last had no entry for it (since the last clear_cart
\* or checkout), whatever navigation happened in between.
C5_AddsCounted ==
    \A u \in Sessions : \A x \in CatalogueIds :
        CartGet(Cart(u), x) = hist[u].adds[x]

C5_Witness ==
    \E t \in tasks :
        /\ IsCallback(t, <<"menu">>) /\ t.pc = "done"
        /\ hist[t.user].adds[MilkId] = MaxQty
        /\ CartGet(Cart(t.user), MilkId) = MaxQty

\* C6: add_to_cart(id) leaves the screen of its session as it was; with an id
\* of the catalogue it raises the quantity of id
\* by one and leaves every other quantity; with an unknown id it leaves the
\* cart and answers with the "item not found" alert.
C6_AddKeepsScreen ==
    [][\A t \in tasks :
         (t.kind = "callback" /\ StartsWith(t.data, <<"add", ":">>) /\ Steps(t))
           => LET x == SplitTail(t.data)
              IN  /\ screen'[t.user] = screen[t.user]
                  /\ (x \in CatalogueIds /\ t.pc = "L260")
                        => /\ CartGet(Cart(t.user)', x) = CartGet(Cart(t.user), x) + 1
                           /\ \A y \in CatalogueIds \ {x} :
                                 CartGet(Cart(t.user)', y) = CartGet(Cart(t.user), y)
                  /\ (x \in CatalogueIds /\ t.pc = "L313")
                        => Cart(t.user)' = Cart(t.user)
                  /\ x \notin CatalogueIds
                        => /\ Cart(t.user)' = Cart(t.user)
                           /\ ReturnedWithAlert(t, <<"Tovar ne najden">>) \in tasks']_vars

\* C7: clear_cart leaves the cart empty, whatever it held, and renders the
\* cart screen in its empty form: no clear or checkout button, only the button
\* back to the categories.
C7_ClearEmptiesCart ==
    [][\A t \in tasks :
         (IsCallback(t, ClearData) /\ t.pc = "L260" /\ Steps(t))
           => /\ Cart(t.user)' = << >>
              /\ screen'[t.user].text = CartClearedText
              /\ OnlyBackButton(screen'[t.user].reply_markup)
              /\ [t EXCEPT !.pc = "done"] \in tasks']_vars

C7_Witness ==
    \E t \in tasks :
        /\ IsCallback(t, ClearData) /\ t.pc = "done"
        /\ hist[t.user].ever_added
        /\ Cart(t.user) = << >>
        /\ screen[t.user].text = CartClearedText
        /\ OnlyBackButton(screen[t.user].reply_markup)

\* C8: a session that never added an item reads an empty cart: /cart and
\* cart:view render the empty-cart text with only the back button, also as the
\* first update of the session, and checkout answers with the "cart empty"
\* alert and renders nothing.
C8_FreshCartEmpty ==
    [][/\ \A u \in Sessions : ~hist[u].ever_added => Cart(u) = << >>
       /\ \A t \in tasks' \ tasks :
            (t.pc = "done" /\ ~hist'[t.user].ever_added)
              => /\ ((t.kind = "command" /\ t.data = <<"/cart">>) \/ IsCallback(t, ViewData))
                      => /\ screen'[t.user].text = CartEmptyText
                         /\ OnlyBackButton(screen'[t.user].reply_markup)
                 /\ IsCallback(t, CheckoutData)
                      => /\ t.answers[Len(t.answers)] = Answer(<<"Korzina pusta">>, TRUE)
                         /\ screen' = screen]_vars

C8_Witness ==
    \E t \in tasks :
        /\ t.kind = "command" /\ t.data = <<"/cart">> /\ t.pc = "done"
        /\ ~hist[t.user].ever_added
        /\ user_data[t.user] = [cart |-> EmptyCart]
        /\ screen[t.user].text = CartEmptyText

\* C9: a step changes the user_data and the screen of no session but the one
\* whose update it handles.
C9_SessionsIsolated ==
    [][\A v \in Sessions :
         (user_data'[v] # user_data[v] \/ screen'[v] # screen[v])
            => v \in {t.user : t \in tasks' \ tasks}]_vars

C9_Witness ==
    /\ CartGet(Cart("u1"), MilkId) = MaxQty
    /\ screen["u1"].text = ItemText(find_sweet_by_id(MilkId)[1])
    /\ hist["u2"].ever_added
    /\ Cart("u2") = << >>
    /\ screen["u2"] = CheckoutConfirmation

\* C10 as stated: select_category with an unknown key renders the item list
\* of that key in its empty form, whose only button is the back button.
C10_UnknownCategoryRendered ==
    [][\A t \in tasks :
         (t.kind = "callback" /\ StartsWith(t.data, <<"cat", ":">>) /\ t.pc = "L260"
            /\ CatalogueGet(SplitTail(t.data)) = << >> /\ Steps(t))
           => /\ screen'[t.user].text = CategoryText(SplitTail(t.data))
              /\ OnlyBackButton(screen'[t.user].reply_markup)]_vars

\* C10 amended: select_category with an unknown key answers with the
\* "category not found" alert and changes neither a screen nor a cart.
C10_UnknownCategoryRefused ==
    [][\A t \in tasks :
         (t.kind = "callback" /\ StartsWith(t.data, <<"cat", ":">>) /\ t.pc = "L260"
            /\ CatalogueGet(SplitTail(t.data)) = << >> /\ Steps(t))
           => /\ screen' = screen
              /\ user_data' = user_data
              /\ ReturnedWithAlert(t, <<"Kategoriya ne najdena">>) \in tasks']_vars

C10_Witness ==
    \E t \in tasks :
        /\ t = ReturnedWithAlert([t EXCEPT !.answers = <<Answer(<< >>, FALSE)>>],
                                 <<"Kategoriya ne najdena">>)
        /\ IsCallback(t, <<"cat", ":", "nuts">>)
        /\ screen[t.user].text = MenuText
        /\ screen[t.user].reply_markup = build_categories_keyboard

\* the sweets of the catalogue, and the one with a given id
CatalogueSweets ==
    {FlattenSweets(SWEET_CATALOGUE)[i] : i \in 1..Len(FlattenSweets(SWEET_CATALOGUE))}
SweetOf(x) == CHOOSE sw \in CatalogueSweets : sw.id = x

IsItemPress(t) == t.kind = "callback" /\ StartsWith(t.data, <<"item", ":">>) /\ t.pc = "L260"

\* C11: view_item(id) with an id that is not in the catalogue answers with the
\* "item not found" alert and changes neither a screen nor a cart; with an id
\* of the catalogue it renders the item's detail screen (its text, and the
\* keyboard with the add button of that id) and leaves every cart as it was.
C11_ViewItem ==
    [][\A t \in tasks :
         (IsItemPress(t) /\ Steps(t))
           => LET x == SplitTail(t.data)
              IN  /\ \A u \in Sessions : Cart(u)' = Cart(u)
                  /\ x \notin CatalogueIds
                        => /\ screen' = screen
                           /\ ReturnedWithAlert(t, <<"Tovar ne najden">>) \in tasks'
                  /\ x \in CatalogueIds
                        => /\ screen'[t.user].text = ItemText(SweetOf(x))
                           /\ <<"add", ":">> \o x \in ButtonData(screen'[t.user].reply_markup)
                           /\ \A v \in Sessions \ {t.user} : screen'[v] = screen[v]
                           /\ [t EXCEPT !.pc = "done"] \in tasks']_vars

\* an unknown id was refused while the cart held an item and the category
\* list was on display
C11_Witness ==
    \E t \in tasks :
        /\ t = ReturnedWithAlert([t EXCEPT !.answers = <<Answer(<< >>, FALSE)>>], <<"Tovar ne najden">>)
        /\ IsCallback(t, <<"item", ":", "nonexistent">>)
        /\ Cart(t.user) # << >>
        /\ screen[t.user].text = MenuText

\* callback data of none of the shapes menu, cat:<key>, item:<id>, add:<id>,
\* cart:view, cart:clear, cart:checkout
Malformed(data) ==
    /\ data # <<"menu">>
    /\ ~StartsWith(data, <<"cat", ":">>)
    /\ ~StartsWith(data, <<"item", ":">>)
    /\ ~StartsWith(data, <<"add", ":">>)
    /\ data \notin {ViewData, ClearData, CheckoutData}

\* C12: a press whose data has none of the recognised shapes (cart:<other>,
\* no data, data that only starts with "menu") answers with the "unknown
\* command" alert and changes neither a screen nor the contents of a cart.
C12_MalformedRefused ==
    [][\A t \in tasks :
         (t.kind = "callback" /\ Malformed(t.data) /\ Steps(t))
           => /\ screen' = screen
              /\ \A u \in Sessions : Cart(u)' = Cart(u)
              /\ ReturnedWithAlert(t, <<"Neizvestnaya komanda">>) \in tasks']_vars

\* data that only starts with "menu" was refused while a non-empty cart was on
\* display
C12_Witness ==
    \E t \in tasks :
        /\ t = ReturnedWithAlert([t EXCEPT !.answers = <<Answer(<< >>, FALSE)>>],
                                 <<"Neizvestnaya komanda">>)
        /\ IsCallback(t, <<"menu", "x">>)
        /\ Cart(t.user) # << >>
        /\ screen[t.user].text = format_cart(Cart(t.user))

\* reading a cart screen: the amounts are found by their neighbours in the
\* text and parsed back to integers
RECURSIVE SumPrices(_)
SumPrices(sweets) ==
    IF sweets = << >> THEN 0 ELSE Head(sweets).price_rub + SumPrices(Tail(sweets))
Amounts == 0..(MaxQty * SumPrices(FlattenSweets(SWEET_CATALOGUE)))
ParseAmount(token) == CHOOSE n \in Amounts : ToString(n) = token

IsCartView(text) == text # << >> /\ Head(text) = "Vasha korzina:"

\* the amounts that follow the token `mark` in the text, in order
RECURSIVE AmountsAfter(_, _)
AmountsAfter(text, mark) ==
    IF Len(text) < 2 THEN << >>
    ELSE IF Head(text) = mark
         THEN <<ParseAmount(text[2])>> \o AmountsAfter(Tail(text), mark)
         ELSE AmountsAfter(Tail(text), mark)

ShownTotals(text) == AmountsAfter(text, "Itogo k oplate: ")
ShownLineTotals(text) == AmountsAfter(text, " = ")

RECURSIVE SumSeq(_)
SumSeq(ns) == IF ns = << >> THEN 0 ELSE Head(ns) + SumSeq(Tail(ns))

\* sum of price * quantity over the entries whose id is in the catalogue
RECURSIVE ExactTotal(_)
ExactTotal(cart) ==
    IF cart = << >> THEN 0
    ELSE (IF Head(cart).id \in CatalogueIds
          THEN SweetOf(Head(cart).id).price_rub * Head(cart).qty ELSE 0)
         + ExactTotal(Tail(cart))

Resolvable(cart) == SelectSeq(cart, LAMBDA e : e.id \in CatalogueIds)

\* C13: a cart screen shows one total, which is the sum of price * quantity
\* over the entries of the cart whose id is in the catalogue and the sum of the
\* line totals shown; there is one line for each such entry, with its line
\* total, and none for an entry whose id is not in the catalogue.
C13_TotalExact ==
    \A u \in Sessions :
        IsCartView(screen[u].text) =>
            LET text == screen[u].text
                cart == Cart(u)
            IN  /\ ShownTotals(text) = <<ExactTotal(cart)>>
                /\ SumSeq(ShownLineTotals(text)) = ExactTotal(cart)
                /\ ShownLineTotals(text) =
                      [i \in 1..Len(Resolvable(cart)) |->
                          SweetOf(Resolvable(cart)[i].id).price_rub * Resolvable(cart)[i].qty]

\* the cart screen of a dict with two items of the catalogue, one of them in
\* the largest quantity, and a key in between that the catalogue does not hold
C13_Witness ==
    \E u \in Sessions :
        /\ IsCartView(screen[u].text)
        /\ Len(Cart(u)) = 3
        /\ Cart(u)[1] = [id |-> <<"salted_caramel">>, qty |-> MaxQty]
        /\ Cart(u)[2].id = <<"discontinued">>
        /\ Cart(u)[3] = [id |-> MilkId, qty |-> 1]
        /\ Len(ShownLineTotals(screen[u].text)) = 2

\* C14: /help and a command that no handler is registered for send their fixed
\* text and change neither a screen nor user_data (so no cart), in whatever
\* state they are handled.
C14_HelpChangesNothing ==
    [][\A t \in tasks' \ tasks :
         (t.kind = "command" /\ t.data \in {<<"/help">>} \cup OtherCommands)
           => /\ screen' = screen
              /\ user_data' = user_data
              /\ t.pc = "done"
              /\ t.sent = (IF t.data = <<"/help">> THEN HelpText ELSE UnknownCommandText)]_vars

\* an unknown command was handled while the cart held an item in the largest
\* quantity and the item's detail screen was on display
C14_Witness ==
    \E t \in tasks :
        /\ t.kind = "command" /\ t.data \in OtherCommands /\ t.pc = "done"
        /\ CartGet(Cart(t.user), MilkId) = MaxQty
        /\ screen[t.user].text = ItemText(SweetOf(MilkId))

\* /help was handled while the checkout confirmation was on display
C14_WitnessHelp ==
    \E t \in tasks :
        /\ t.kind = "command" /\ t.data = <<"/help">> /\ t.pc = "done"
        /\ screen[t.user] = CheckoutConfirmation

\* C15: no two sweets of the catalogue, of one category or of two, have the
\* same id, so the scan of _find_sweet_by_id returns, for the id of a sweet,
\* that sweet and no other; so does every id that a button on display carries.
C15_IdsUnique ==
    LET all == FlattenSweets(SWEET_CATALOGUE)
    IN  /\ \A i, j \in 1..Len(all) : all[i].id = all[j].id => i = j
        /\ \A i \in 1..Len(all) : find_sweet_by_id(all[i].id) = <<all[i]>>
        /\ Cardinality(CatalogueIds) = Len(all)
        /\ \A u \in Sessions : \A d \in ButtonData(screen[u].reply_markup) :
              (StartsWith(d, <<"item", ":">>) \/ StartsWith(d, <<"add", ":">>))
                 => Cardinality({i \in 1..Len(all) : all[i].id = SplitTail(d)}) = 1

\* the scan went past the first category: the detail screen of a sweet of the
\* second category is on display
C15_Witness ==
    \E t \in tasks :
        /\ IsCallback(t, <<"item", ":", "salted_caramel">>) /\ t.pc = "done"
        /\ screen[t.user].text = ItemText(find_sweet_by_id(<<"salted_caramel">>)[1])
        /\ find_sweet_by_id(<<"salted_caramel">>)[1].price_rub = 150

\* the category keyboard is on display
OnCategoryList(u) == screen[u].reply_markup = build_categories_keyboard

\* no state is stuck: a handler that is suspended can take its next step, and
\* when no handler is in progress the application takes the press that waits
\* or, if none waits, every command and every press of a button on offer
NoStuckState ==
    /\ \A t \in Running : ENABLED (Route(t) \/ ResumeAdd(t) \/ ResumeCheckout(t))
    /\ Running = {} =>
          \A u \in Solo :
             IF pending[u] # << >>
             THEN ENABLED Accept(u, pending[u][1])
             ELSE /\ ENABLED start(u)
                  /\ ENABLED menu_command(u)
                  /\ ENABLED cart_command(u)
                  /\ ENABLED help_command(u)
                  /\ \A c \in OtherCommands : ENABLED unknown_command(u, c)
                  /\ \A d \in Offered(u) : WithinBound(u, d, 0) => ENABLED Accept(u, d)

\* a handler that steps returns or moves on to its last await; the menu
\* button, /menu and /start put the category keyboard on display and leave
\* user_data
OpenMenuStep ==
    /\ \A t \in Running :
          Steps(t) => \/ [t EXCEPT !.pc = "done"] \in tasks'
                      \/ \E a \in {Answer(text, TRUE) : text \in {<<"Kategoriya ne najdena">>,
                                      <<"Tovar ne najden">>, <<"Korzina pusta">>,
                                      <<"Neizvestnaya komanda">>}} :
                            [t EXCEPT !.pc = "done", !.answers = Append(t.answers, a)] \in tasks'
                      \/ /\ t.pc = "L260"
                         /\ \E t2 \in tasks' : /\ t2.pc \in {"L313", "L341"}
                                               /\ t2.user = t.user /\ t2.data = t.data
    /\ \A t \in tasks :
          (IsCallback(t, <<"menu">>) /\ Steps(t))
             => /\ screen'[t.user] = [text |-> MenuText, reply_markup |-> build_categories_keyboard]
                /\ user_data' = user_data
                /\ [t EXCEPT !.pc = "done"] \in tasks'
    /\ \A t \in tasks' \ tasks :
          (t.kind = "command" /\ t.data \in {<<"/menu">>, <<"/start">>})
             => /\ OnCategoryList(t.user)'
                /\ screen'[t.user].text = t.sent
                /\ user_data' = user_data
                /\ t.pc = "done"

\* C16: no state of a session is stuck (every update is taken and every
\* handler returns after at most two more steps), and open_menu, by the menu
\* button, /menu or /start, leads to the category list and leaves the cart; so
\* the category list can be reached from every reachable state.
C16_NoStuckState == []NoStuckState /\ [][OpenMenuStep]_vars

\* the menu button was handled while the cart held two items: the category
\* list is on display and the cart is as it was
C16_Witness ==
    \E t \in tasks :
        /\ IsCallback(t, <<"menu">>) /\ t.pc = "done"
        /\ Len(Cart(t.user)) = 2
        /\ screen[t.user] = [text |-> MenuText, reply_markup |-> build_categories_keyboard]

\* the cart screen rendered for `cart`: the empty text and only the back
\* button, or the listing with the clear, checkout and back buttons
IsCartScreenOf(scr, cart) ==
    IF cart = << >>
    THEN /\ scr.text = CartEmptyText
         /\ OnlyBackButton(scr.reply_markup)
    ELSE /\ IsCartView(scr.text)
         /\ ShownTotals(scr.text) = <<ExactTotal(cart)>>
         /\ ButtonData(scr.reply_markup) = {ClearData, CheckoutData, <<"menu">>}

\* C17: view_cart, by the cart:view button or /cart, leaves the contents of
\* every cart and renders the cart screen of the session's cart as it is at
\* that moment: with the clear and checkout buttons if and only if the cart is
\* not empty, with the empty-cart text and only the back button if it is.
C17_ViewCart ==
    [][/\ \A t \in tasks :
            (IsCallback(t, ViewData) /\ Steps(t))
               => /\ \A u \in Sessions : Cart(u)' = Cart(u)
                  /\ IsCartScreenOf(screen'[t.user], Cart(t.user))
                  /\ [t EXCEPT !.pc = "done"] \in tasks'
       /\ \A t \in tasks' \ tasks :
            (t.kind = "command" /\ t.data = <<"/cart">>)
               => /\ \A u \in Sessions : Cart(u)' = Cart(u)
                  /\ IsCartScreenOf(screen'[t.user], Cart(t.user))
                  /\ t.pc = "done"]_vars

\* cart:view was handled with two items in the cart: the listing with the
\* clear and checkout buttons is on display
C17_Witness ==
    \E t \in tasks :
        /\ IsCallback(t, ViewData) /\ t.pc = "done"
        /\ Len(Cart(t.user)) = 2
        /\ IsCartView(screen[t.user].text)
        /\ {ClearData, CheckoutData} \subseteq ButtonData(screen[t.user].reply_markup)

\* the text `text` shows the total n
ShowsTotal(text, n) ==
    \E i \in 1..(Len(text) - 1) : text[i] = "Itogo k oplate: " /\ text[i + 1] = ToString(n)

\* C18: every key of every cart is the id of a sweet of the catalogue, so the
\* cart renderer skips no entry (it has a line for every entry), and the total
\* it shows for a non-empty cart is greater than zero.
C18_CartKeysResolve ==
    \A u \in Sessions :
        LET cart == Cart(u)
        IN  /\ \A i \in 1..Len(cart) : /\ cart[i].id \in CatalogueIds
                                       /\ find_sweet_by_id(cart[i].id) # << >>
            /\ cart # << >>
                  => /\ Len(CartLines(cart, [lines |-> << >>, total |-> 0]).lines) = Len(cart)
                     /\ ExactTotal(cart) > 0
                     /\ ShowsTotal(format_cart(cart), ExactTotal(cart))

\* an add with an id outside the catalogue was refused while the cart held two
\* items
C18_Witness ==
    \E t \in tasks :
        /\ IsCallback(t, <<"add", ":", "nonexistent">>) /\ t.pc = "done"
        /\ Len(Cart(t.user)) = 2
        /\ CartGet(Cart(t.user), MilkId) = MaxQty

\* C19: the handler of a button press calls query.answer exactly once: never
\* more than once while it runs, and once when it has returned.
C19_AnsweredOnce ==
    \A t \in tasks :
        t.kind = "callback" => /\ Len(t.answers) <= 1
                               /\ t.pc = "done" => Len(t.answers) = 1

\* the presses whose handler answers twice: the answer of line 260 and then
\* the notice of the branch (lines 276, 289, 308, 313, 338, 352)
AnsweredTwice ==
    \E t \in tasks :
        /\ t.kind = "callback" /\ t.pc # "L260"
        /\ Len(t.answers) = 2
        /\ t.answers[1] = Answer(<< >>, FALSE)
        /\ t.answers[2].text # << >>

====
